---- MODULE Spec2Model ----
(***************************************************************************)
(* RMR roof-bolt support calculator (streamlit_app.py).                    *)
(*                                                                         *)
(* The script is re-executed from top to bottom on every widget change.    *)
(* The state is the widget values (five selectbox options, three           *)
(* number_input values) and the script globals the last run assigned.      *)
(* Every action changes one widget and runs the whole script.              *)
(*                                                                         *)
(* Python floats are modelled as exact fractions [n, d] with d > 0 (not    *)
(* reduced).  The widget values are multiples of the number_input step     *)
(* 0.5; for those, int(v / spacing), round(v / spacing) and the max(...)   *)
(* comparisons of the float program agree with exact arithmetic.           *)
(***************************************************************************)
EXTENDS Integers, Sequences, FiniteSets

VARIABLES
    ucs_option, rqd_option, spacing_option, condition_option, water_option,
    excavation_width, excavation_height, tunnel_length,
    ratings, rmr_value, rock_class, description, class_color,
    bolt_length, bolt_spacing, bolts_per_row, rows_per_meter,
    bolt_density, total_bolts, total_bolt_length,
    grid, bolt_positions, error

widgets == <<ucs_option, rqd_option, spacing_option, condition_option, water_option,
             excavation_width, excavation_height, tunnel_length>>

scorer == <<ratings, rmr_value, rock_class, description, class_color>>

planner == <<bolt_length, bolt_spacing, bolts_per_row, rows_per_meter,
             bolt_density, total_bolts, total_bolt_length>>

vars == <<widgets, scorer, planner, grid, bolt_positions, error>>

---------------------------------------------------------------------------
(* Bounds of the model: the largest width and height (in half metres) the  *)
(* step buttons are followed to.                                           *)
MaxWidthHalves == 31

MaxHeightHalves == 12

---------------------------------------------------------------------------
(* Float arithmetic, as exact fractions.                                   *)

R(a, b) == [n |-> a, d |-> b]

RInt(k) == [n |-> k, d |-> 1]

RAdd(a, b) == [n |-> a.n * b.d + b.n * a.d, d |-> a.d * b.d]

RMul(a, b) == [n |-> a.n * b.n, d |-> a.d * b.d]

\* a / b for b > 0 (a zero divisor raises ZeroDivisionError before this is used)
RDiv(a, b) == [n |-> a.n * b.d, d |-> a.d * b.n]

RLe(a, b) == a.n * b.d <= b.n * a.d

RLt(a, b) == a.n * b.d < b.n * a.d

\* Python max(a, b): the first of the largest
RMax(a, b) == IF RLt(a, b) THEN b ELSE a

IMax(a, b) == IF a < b THEN b ELSE a

\* Python int(x) of a float x >= 0: truncation
PyInt(a) == a.n \div a.d

\* variant: a tie goes up
RoundHalfUp(a) == (2 * a.n + a.d) \div (2 * a.d)

\* Python round(x) of a float x >= 0: nearest integer, a tie goes to the even one
PyRound(a) ==
    LET q  == a.n \div a.d
        r2 == 2 * (a.n % a.d)
    IN  IF r2 < a.d THEN q
        ELSE IF r2 > a.d THEN q + 1
        ELSE IF q % 2 = 0 THEN q ELSE q + 1

---------------------------------------------------------------------------
(* The option lists and rating tables of the five parameters.              *)

ucs_options == <<"> 250 MPa (15 points)", "100-250 MPa (12 points)",
                 "50-100 MPa (7 points)", "25-50 MPa (4 points)",
                 "5-25 MPa (2 points)", "1-5 MPa (1 point)",
                 "< 1 MPa (0 points)">>

ucs_ratings == <<15, 12, 7, 4, 2, 1, 0>>

rqd_options == <<"90-100% (20 points)", "75-90% (17 points)",
                 "50-75% (13 points)", "25-50% (8 points)",
                 "< 25% (3 points)">>

rqd_ratings == <<20, 17, 13, 8, 3>>

spacing_options == <<"> 2 m (20 points)", "0.6-2 m (15 points)",
                     "200-600 mm (10 points)", "60-200 mm (8 points)",
                     "< 60 mm (5 points)">>

spacing_ratings == <<20, 15, 10, 8, 5>>

condition_options ==
    <<"Very rough, not continuous, no separation, unweathered (30 points)",
      "Slightly rough, separation < 1 mm, slightly weathered (25 points)",
      "Slightly rough, separation < 1 mm, highly weathered (20 points)",
      "Slickensided/gouge < 5 mm, or separation 1-5 mm (10 points)",
      "Soft gouge > 5 mm, or separation > 5 mm (0 points)">>

condition_ratings == <<30, 25, 20, 10, 0>>

water_options == <<"Completely dry (15 points)", "Damp (10 points)",
                   "Wet (7 points)", "Dripping (4 points)",
                   "Flowing (0 points)">>

water_ratings == <<15, 10, 7, 4, 0>>

Range(s) == {s[i] : i \in 1..Len(s)}

\* list.index(x): the 0-based position of the first x, -1 standing for ValueError
IndexOf(list, x) ==
    IF \E i \in 1..Len(list) : list[i] = x
    THEN (CHOOSE i \in 1..Len(list) :
             list[i] = x /\ \A j \in 1..(i - 1) : list[j] # x) - 1
    ELSE -1

\* The five lookups in script order: <<list of options, ratings, option>>
Lookups(uo, ro, so, co, wo) ==
    << <<ucs_options, ucs_ratings, uo>>,
       <<rqd_options, rqd_ratings, ro>>,
       <<spacing_options, spacing_ratings, so>>,
       <<condition_options, condition_ratings, co>>,
       <<water_options, water_ratings, wo>> >>

\* a1_rating .. a5_rating, as far as the script gets before an index() raises
Ratings(uo, ro, so, co, wo) ==
    LET L  == Lookups(uo, ro, so, co, wo)
        ok(k) == IndexOf(L[k][1], L[k][3]) >= 0
        m  == IF \E k \in 1..5 : ~ok(k)
              THEN (CHOOSE k \in 1..5 : ~ok(k) /\ \A j \in 1..(k - 1) : ok(j)) - 1
              ELSE 5
    IN  [k \in 1..m |-> L[k][2][IndexOf(L[k][1], L[k][3]) + 1]]

---------------------------------------------------------------------------
(* RMR scorer.                                                             *)

\* variant: the groundwater rating is left out of the sum
RmrValueNoWater(r) == r[1] + r[2] + r[3] + r[4]

RmrValue(r) == r[1] + r[2] + r[3] + r[4] + r[5]

\* variant: the lower bound of each band is exclusive
ClassifyOpenBounds(rmr) ==
    IF rmr > 81 /\ rmr <= 100
    THEN [rock_class |-> "I", description |-> "Very good rock", class_color |-> "green"]
    ELSE IF rmr > 61 /\ rmr <= 80
    THEN [rock_class |-> "II", description |-> "Good rock", class_color |-> "lightgreen"]
    ELSE IF rmr > 41 /\ rmr <= 60
    THEN [rock_class |-> "III", description |-> "Fair rock", class_color |-> "yellow"]
    ELSE IF rmr > 21 /\ rmr <= 40
    THEN [rock_class |-> "IV", description |-> "Poor rock", class_color |-> "orange"]
    ELSE [rock_class |-> "V", description |-> "Very poor rock", class_color |-> "red"]

Classify(rmr) ==
    IF rmr >= 81 /\ rmr <= 100
    THEN [rock_class |-> "I", description |-> "Very good rock", class_color |-> "green"]
    ELSE IF rmr >= 61 /\ rmr <= 80
    THEN [rock_class |-> "II", description |-> "Good rock", class_color |-> "lightgreen"]
    ELSE IF rmr >= 41 /\ rmr <= 60
    THEN [rock_class |-> "III", description |-> "Fair rock", class_color |-> "yellow"]
    ELSE IF rmr >= 21 /\ rmr <= 40
    THEN [rock_class |-> "IV", description |-> "Poor rock", class_color |-> "orange"]
    ELSE [rock_class |-> "V", description |-> "Very poor rock", class_color |-> "red"]

---------------------------------------------------------------------------
(* Support planner.  The last branch of each if/elif chain is an           *)
(* unconditional else: it takes every rock_class not matched above.        *)

BoltLength(rc, width) ==
    IF rc = "I" THEN RMax(RInt(2), RDiv(width, RInt(5)))
    ELSE IF rc = "II" THEN RMax(R(5, 2), RDiv(width, RInt(4)))
    ELSE IF rc = "III" THEN RMax(RInt(3), RDiv(width, RInt(3)))
    ELSE IF rc = "IV" THEN RMax(RInt(4), RDiv(width, R(5, 2)))
    ELSE RMax(R(9, 2), RDiv(width, RInt(2)))

\* variant: class IV keeps the spacing of class III
BoltSpacingWide(rc) ==
    IF rc = "I" THEN RInt(2)
    ELSE IF rc = "II" THEN R(3, 2)
    ELSE IF rc = "III" THEN R(6, 5)
    ELSE IF rc = "IV" THEN R(6, 5)
    ELSE R(3, 5)

BoltSpacing(rc) ==
    IF rc = "I" THEN RInt(2)
    ELSE IF rc = "II" THEN R(3, 2)
    ELSE IF rc = "III" THEN R(6, 5)
    ELSE IF rc = "IV" THEN RInt(1)
    ELSE R(3, 5)

\* variant: round() with a tie going up
BoltsPerRowHalfUp(rc, width, spacing) ==
    IF rc = "I" THEN IMax(2, RoundHalfUp(RDiv(width, spacing)))
    ELSE IMax(3, RoundHalfUp(RDiv(width, spacing)))

BoltsPerRow(rc, width, spacing) ==
    IF rc = "I" THEN IMax(2, PyRound(RDiv(width, spacing)))
    ELSE IMax(3, PyRound(RDiv(width, spacing)))

RowsPerMeter(rc, spacing) ==
    IF rc = "I" THEN R(1, 2) ELSE RDiv(RInt(1), spacing)

\* The derived quantities, or ZeroDivisionError where a division by the
\* spacing would raise it
SupportPlan(rc, width, length) ==
    LET bl  == BoltLength(rc, width)
        sp  == BoltSpacing(rc)
        bpr == BoltsPerRow(rc, width, sp)
        rpm == RowsPerMeter(rc, sp)
        bd  == RMul(RInt(bpr), rpm)
        tb  == RMul(bd, length)
        tbl == RMul(tb, bl)
    IN  IF sp.n = 0
        THEN [error |-> "ZeroDivisionError", bolt_length |-> bl, bolt_spacing |-> sp,
              bolts_per_row |-> 0, rows_per_meter |-> RInt(0), bolt_density |-> RInt(0),
              total_bolts |-> RInt(0), total_bolt_length |-> RInt(0)]
        ELSE [error |-> "none", bolt_length |-> bl, bolt_spacing |-> sp,
              bolts_per_row |-> bpr, rows_per_meter |-> rpm, bolt_density |-> bd,
              total_bolts |-> tb, total_bolt_length |-> tbl]

---------------------------------------------------------------------------
(* generate_bolt_pattern_image: the bolt positions.                        *)

\* variant: the floor of two rows applied to every class
RowsAllFloored(rc, height, spacing) == IMax(2, PyInt(RDiv(height, spacing)))

Rows(rc, height, spacing) ==
    IF rc \in {"IV", "V"} THEN PyInt(RDiv(height, spacing))
    ELSE IMax(2, PyInt(RDiv(height, spacing)))

\* variant: no floor of three columns
ColsNoFloor(width, spacing) == PyInt(RDiv(width, spacing))

Cols(width, spacing) == IMax(3, PyInt(RDiv(width, spacing)))

\* variant: no row is skipped
SkippedNever(rc, row) == FALSE

\* the continue of the inner loop
Skipped(rc, row) == rc \in {"II", "III"} /\ row > 1

\* variant: the spot bolts half a spacing below the crown
SpotPositionsAtSpacing(width, spacing) ==
    << <<RDiv(width, RInt(4)), RDiv(spacing, RInt(2))>>,
       <<RDiv(width, RInt(2)), RDiv(spacing, RInt(2))>>,
       <<RDiv(RMul(RInt(3), width), RInt(4)), RDiv(spacing, RInt(2))>> >>

\* class I: three bolts in the crown
SpotPositions(width, spacing) ==
    << <<RDiv(width, RInt(4)), R(1, 2)>>,
       <<RDiv(width, RInt(2)), R(1, 2)>>,
       <<RDiv(RMul(RInt(3), width), RInt(4)), R(1, 2)>> >>

GridX(col, width, cols) == RMul(RAdd(RInt(col), R(1, 2)), RDiv(width, RInt(cols)))

\* variant: rows offset by one
GridYFromBottom(row, height, rows) ==
    RMul(RAdd(RInt(row), R(3, 2)), RDiv(height, RInt(rows)))

GridY(row, height, rows) == RMul(RAdd(RInt(row), R(1, 2)), RDiv(height, RInt(rows)))

\* for row in range(rows): for col in range(cols): ... append((x, y))
GridPositions(width, height, rows, cols, rc) ==
    LET iterations == [k \in 1..(rows * cols) |-> <<(k - 1) \div cols, (k - 1) % cols>>]
        appended   == SelectSeq(iterations, LAMBDA it : ~Skipped(rc, it[1]))
    IN  [i \in 1..Len(appended) |->
            <<GridX(appended[i][2], width, cols), GridY(appended[i][1], height, rows)>>]

\* rows and cols are assigned only in the else branch
GridOf(width, height, spacing, rc) ==
    IF rc = "I" THEN [rows |-> 0, cols |-> 0]
    ELSE [rows |-> Rows(rc, height, spacing), cols |-> Cols(width, spacing)]

BoltPositions(width, height, spacing, rc) ==
    IF rc = "I" THEN SpotPositions(width, spacing)
    ELSE GridPositions(width, height, Rows(rc, height, spacing),
                       Cols(width, spacing), rc)

---------------------------------------------------------------------------
(* One run of the script.                                                  *)

\* tab2 from line 211 on, entered with rock_class = rc: the support plan,
\* then generate_bolt_pattern_image(width, height, bolt_spacing, bolt_length, rc)
PlannerRun(rc, width, height, length) ==
    LET plan == SupportPlan(rc, width, length)
    IN  IF plan.error # "none"
        THEN [plan |-> plan, grid |-> [rows |-> 0, cols |-> 0], bolt_positions |-> <<>>]
        ELSE [plan |-> plan,
              grid |-> GridOf(width, height, plan.bolt_spacing, rc),
              bolt_positions |-> BoltPositions(width, height, plan.bolt_spacing, rc)]

\* What a run that stops at a raising index() leaves unassigned
Unassigned ==
    [plan |-> [error |-> "ValueError", bolt_length |-> RInt(0), bolt_spacing |-> RInt(0),
               bolts_per_row |-> 0, rows_per_meter |-> RInt(0), bolt_density |-> RInt(0),
               total_bolts |-> RInt(0), total_bolt_length |-> RInt(0)],
     grid |-> [rows |-> 0, cols |-> 0], bolt_positions |-> <<>>]

\* Everything one run of the script assigns, top to bottom, from the widget values
Script(uo, ro, so, co, wo, width, height, length) ==
    LET r == Ratings(uo, ro, so, co, wo)
        c == Classify(RmrValue(r))
    IN  IF Len(r) < 5
        THEN [ratings |-> r, rmr_value |-> -1, rock_class |-> "", description |-> "",
              class_color |-> "", run |-> Unassigned]
        ELSE [ratings |-> r, rmr_value |-> RmrValue(r), rock_class |-> c.rock_class,
              description |-> c.description, class_color |-> c.class_color,
              run |-> PlannerRun(c.rock_class, width, height, length)]

AssignPlanner(run) ==
    /\ bolt_length' = run.plan.bolt_length
    /\ bolt_spacing' = run.plan.bolt_spacing
    /\ bolts_per_row' = run.plan.bolts_per_row
    /\ rows_per_meter' = run.plan.rows_per_meter
    /\ bolt_density' = run.plan.bolt_density
    /\ total_bolts' = run.plan.total_bolts
    /\ total_bolt_length' = run.plan.total_bolt_length
    /\ grid' = run.grid
    /\ bolt_positions' = run.bolt_positions
    /\ error' = run.plan.error

\* A widget changed: the script runs again with the new widget values
Rerun(uo, ro, so, co, wo, width, height, length) ==
    LET out == Script(uo, ro, so, co, wo, width, height, length)
    IN  /\ ucs_option' = uo
        /\ rqd_option' = ro
        /\ spacing_option' = so
        /\ condition_option' = co
        /\ water_option' = wo
        /\ excavation_width' = width
        /\ excavation_height' = height
        /\ tunnel_length' = length
        /\ ratings' = out.ratings
        /\ rmr_value' = out.rmr_value
        /\ rock_class' = out.rock_class
        /\ description' = out.description
        /\ class_color' = out.class_color
        /\ AssignPlanner(out.run)

\* The state after the first run with the given widget values
FirstRun(uo, ro, so, co, wo, width, height, length) ==
    LET out == Script(uo, ro, so, co, wo, width, height, length)
    IN  /\ ucs_option = uo
        /\ rqd_option = ro
        /\ spacing_option = so
        /\ condition_option = co
        /\ water_option = wo
        /\ excavation_width = width
        /\ excavation_height = height
        /\ tunnel_length = length
        /\ ratings = out.ratings
        /\ rmr_value = out.rmr_value
        /\ rock_class = out.rock_class
        /\ description = out.description
        /\ class_color = out.class_color
        /\ bolt_length = out.run.plan.bolt_length
        /\ bolt_spacing = out.run.plan.bolt_spacing
        /\ bolts_per_row = out.run.plan.bolts_per_row
        /\ rows_per_meter = out.run.plan.rows_per_meter
        /\ bolt_density = out.run.plan.bolt_density
        /\ total_bolts = out.run.plan.total_bolts
        /\ total_bolt_length = out.run.plan.total_bolt_length
        /\ grid = out.run.grid
        /\ bolt_positions = out.run.bolt_positions
        /\ error = out.run.plan.error

---------------------------------------------------------------------------
(* The widgets.                                                            *)

\* st.sidebar.selectbox: the user picks an option
SelectUcs(opt) ==
    Rerun(opt, rqd_option, spacing_option, condition_option, water_option,
          excavation_width, excavation_height, tunnel_length)

SelectRqd(opt) ==
    Rerun(ucs_option, opt, spacing_option, condition_option, water_option,
          excavation_width, excavation_height, tunnel_length)

SelectSpacing(opt) ==
    Rerun(ucs_option, rqd_option, opt, condition_option, water_option,
          excavation_width, excavation_height, tunnel_length)

SelectCondition(opt) ==
    Rerun(ucs_option, rqd_option, spacing_option, opt, water_option,
          excavation_width, excavation_height, tunnel_length)

SelectWater(opt) ==
    Rerun(ucs_option, rqd_option, spacing_option, condition_option, opt,
          excavation_width, excavation_height, tunnel_length)

\* st.sidebar.number_input(min_value=1.0, max_value=30.0, step=0.5): one step
\* up (dir = 1) or down (dir = -1), kept within the widget's range; the new
\* value is stored in half metres, as every width is
StepWidth(dir) ==
    LET w == RAdd(excavation_width, R(dir, 2))
    IN  /\ RLe(RInt(1), w) /\ RLe(w, RInt(30))
        /\ RLe(w, R(MaxWidthHalves, 2))
        /\ Rerun(ucs_option, rqd_option, spacing_option, condition_option, water_option,
                 R(w.n \div excavation_width.d, 2), excavation_height, tunnel_length)

StepHeight(dir) ==
    LET h == RAdd(excavation_height, R(dir, 2))
    IN  /\ RLe(RInt(1), h) /\ RLe(h, RInt(30))
        /\ RLe(h, R(MaxHeightHalves, 2))
        /\ Rerun(ucs_option, rqd_option, spacing_option, condition_option, water_option,
                 excavation_width, R(h.n \div excavation_height.d, 2), tunnel_length)

\* number_input(min_value=1.0, max_value=1000.0, value=100.0): a typed value
TunnelLengthValues == {RInt(1), RInt(100), RInt(1000)}

SetTunnelLength(v) ==
    Rerun(ucs_option, rqd_option, spacing_option, condition_option, water_option,
          excavation_width, excavation_height, v)

\* The planner and generate_bolt_pattern_image entered with an arbitrary
\* rock_class argument
PlanFor(rc) ==
    /\ Len(ratings) = 5
    /\ rock_class' = rc
    /\ AssignPlanner(PlannerRun(rc, excavation_width, excavation_height, tunnel_length))
    /\ UNCHANGED <<widgets, ratings, rmr_value, description, class_color>>

---------------------------------------------------------------------------
(* Specifications.                                                         *)

\* The widgets' defaults (value=)
DefaultWidth == R(10, 2)

DefaultHeight == R(7, 2)

DefaultTunnelLength == RInt(100)

\* The first run: every widget at its default (index= / value=)
Init ==
    FirstRun(ucs_options[3], rqd_options[3], spacing_options[3], condition_options[3],
             water_options[2], DefaultWidth, DefaultHeight, DefaultTunnelLength)

\* The category selections, at the default geometry
Next ==
    \/ \E opt \in Range(ucs_options) : SelectUcs(opt)
    \/ \E opt \in Range(rqd_options) : SelectRqd(opt)
    \/ \E opt \in Range(spacing_options) : SelectSpacing(opt)
    \/ \E opt \in Range(condition_options) : SelectCondition(opt)
    \/ \E opt \in Range(water_options) : SelectWater(opt)

Spec == Init /\ [][Next]_vars

\* The excavation geometry, for a selection of each rock class: the five
\* selectboxes at the same position i (ratings sum to 100, 79, 57, 34, 10)
InitGeometry ==
    \E i \in 1..5 :
        FirstRun(ucs_options[i], rqd_options[i], spacing_options[i], condition_options[i],
                 water_options[i], DefaultWidth, DefaultHeight, DefaultTunnelLength)

NextGeometry ==
    \/ \E dir \in {-1, 1} : StepWidth(dir)
    \/ \E dir \in {-1, 1} : StepHeight(dir)
    \/ \E v \in TunnelLengthValues : SetTunnelLength(v)

SpecGeometry == InitGeometry /\ [][NextGeometry]_vars

\* Arguments outside the enumerations: an option that is not in its list
\* (first and last lookup of the script), a rock class that is not I..V
ForeignOption == "10-25 MPa"

ClassArguments == {"I", "II", "III", "IV", "V", "VI"}

NextArguments ==
    \/ \E opt \in Range(ucs_options) \cup {ForeignOption} : SelectUcs(opt)
    \/ \E opt \in Range(water_options) \cup {ForeignOption} : SelectWater(opt)
    \/ \E rc \in ClassArguments : PlanFor(rc)

SpecArguments == Init /\ [][NextArguments]_vars

---------------------------------------------------------------------------
(* Reference notions the properties are stated with.                       *)

Classes == {"I", "II", "III", "IV", "V"}

\* the position (1-based) of an option in its list
PositionIn(list, x) == CHOOSE i \in 1..Len(list) : list[i] = x

\* k is the integer part of the fraction q >= 0
IsFloorOf(k, q) == k * q.d <= q.n /\ q.n < (k + 1) * q.d

FloorOf(q) == CHOOSE k \in 0..q.n : IsFloorOf(k, q)

\* k is the integer nearest to q >= 0, the even one of the two at a tie
IsNearestEven(k, q) ==
    LET twice == IF k * q.d >= q.n THEN 2 * (k * q.d - q.n) ELSE 2 * (q.n - k * q.d)
    IN  twice <= q.d /\ (twice = q.d => k % 2 = 0)

\* two fractions denote the same number
REq(a, b) == a.n * b.d = b.n * a.d

PosEq(p, x, y) == REq(p[1], x) /\ REq(p[2], y)

SamePos(p, q) == REq(p[1], q[1]) /\ REq(p[2], q[2])

Half == R(1, 2)

\* the spacing column of the support table
TableSpacing(rc) ==
    CASE rc = "I" -> R(20, 10)
      [] rc = "II" -> R(15, 10)
      [] rc = "III" -> R(12, 10)
      [] rc = "IV" -> R(10, 10)
      [] rc = "V" -> R(6, 10)

\* the bolt-length column of the support table
TableLength(rc, w) ==
    CASE rc = "I" -> RMax(R(20, 10), RDiv(w, R(50, 10)))
      [] rc = "II" -> RMax(R(25, 10), RDiv(w, R(40, 10)))
      [] rc = "III" -> RMax(R(30, 10), RDiv(w, R(30, 10)))
      [] rc = "IV" -> RMax(R(40, 10), RDiv(w, R(25, 10)))
      [] rc = "V" -> RMax(R(45, 10), RDiv(w, R(20, 10)))

\* every RMR score some tuple of valid choices gives
ScoreValues ==
    {a + b + c + d + e : a \in {15, 12, 7, 4, 2, 1, 0}, b \in {20, 17, 13, 8, 3},
                         c \in {20, 15, 10, 8, 5}, d \in {30, 25, 20, 10, 0},
                         e \in {15, 10, 7, 4, 0}}

---------------------------------------------------------------------------
(* C1: for every five-tuple of valid category choices the RMR score is the *)
(* exact integer sum of the five selected point values (strength           *)
(* 15,12,7,4,2,1,0; RQD 20,17,13,8,3; spacing 20,15,10,8,5; condition      *)
(* 30,25,20,10,0; groundwater 15,10,7,4,0) and lies in [0,100].            *)
C1_ScoreIsSumOfPoints ==
    /\ error = "none"
    /\ rmr_value = <<15, 12, 7, 4, 2, 1, 0>>[PositionIn(ucs_options, ucs_option)]
                 + <<20, 17, 13, 8, 3>>[PositionIn(rqd_options, rqd_option)]
                 + <<20, 15, 10, 8, 5>>[PositionIn(spacing_options, spacing_option)]
                 + <<30, 25, 20, 10, 0>>[PositionIn(condition_options, condition_option)]
                 + <<15, 10, 7, 4, 0>>[PositionIn(water_options, water_option)]
    /\ rmr_value \in 0..100

\* the all-minimum selection: 0 + 3 + 5 + 0 + 0 = 8
C1_Witness ==
    /\ ucs_option = ucs_options[7]
    /\ rqd_option = rqd_options[5]
    /\ spacing_option = spacing_options[5]
    /\ condition_option = condition_options[5]
    /\ water_option = water_options[5]
    /\ rmr_value = 8

(* C2: class assignment is a total, non-overlapping partition of the       *)
(* integer scores 0..100: 81-100 -> I 'Very good rock', 61-80 -> II 'Good  *)
(* rock', 41-60 -> III 'Fair rock', 21-40 -> IV 'Poor rock', 0-20 -> V     *)
(* 'Very poor rock'; 81, 61, 41, 21 belong to the higher class and 80, 60, *)
(* 40, 20 to the lower one.  Stated of the classification of every score   *)
(* in 0..100 and of the class the run assigned to its own score.           *)
ClassBands ==
    {[lo |-> 81, hi |-> 100, class |-> "I", description |-> "Very good rock"],
     [lo |-> 61, hi |-> 80, class |-> "II", description |-> "Good rock"],
     [lo |-> 41, hi |-> 60, class |-> "III", description |-> "Fair rock"],
     [lo |-> 21, hi |-> 40, class |-> "IV", description |-> "Poor rock"],
     [lo |-> 0, hi |-> 20, class |-> "V", description |-> "Very poor rock"]}

C2_ClassPartition ==
    /\ \A s \in 0..100 :
          /\ Cardinality({b \in ClassBands : b.lo <= s /\ s <= b.hi}) = 1
          /\ \A b \in ClassBands :
                (b.lo <= s /\ s <= b.hi) <=>
                    (Classify(s).rock_class = b.class
                        /\ Classify(s).description = b.description)
    /\ \E b \in ClassBands :
          /\ b.lo <= rmr_value /\ rmr_value <= b.hi
          /\ rock_class = b.class
          /\ description = b.description

\* a score on a class boundary
C2_Witness == rmr_value = 81 /\ rock_class = "I" /\ description = "Very good rock"

(* C3: for every rock class and geometry the plan's numeric fields equal   *)
(* the reference: bolt_length and spacing per the table; bolts_per_row =   *)
(* max(2, round(width/spacing)) for class I and max(3, ...) otherwise,     *)
(* round being to the nearest integer with a tie going to the even one;    *)
(* rows_per_meter = 0.5 for class I and 1/spacing otherwise; bolt_density  *)
(* = bolts_per_row * rows_per_meter; total_bolts = bolt_density *          *)
(* tunnel_length; total_bolt_length = total_bolts * bolt_length.  Class    *)
(* III with width 5.0 gives 3.0, 1.2, 4 and 10/3.                          *)
C3_PlanMatchesReference ==
    LET w  == excavation_width
        sp == TableSpacing(rock_class)
        lo == IF rock_class = "I" THEN 2 ELSE 3
    IN  /\ error = "none"
        /\ rock_class \in Classes
        /\ REq(bolt_length, TableLength(rock_class, w))
        /\ REq(bolt_spacing, sp)
        /\ bolts_per_row >= lo
        /\ \/ IsNearestEven(bolts_per_row, RDiv(w, sp))
           \/ bolts_per_row = lo /\ \E k \in 0..lo : IsNearestEven(k, RDiv(w, sp))
        /\ REq(rows_per_meter, IF rock_class = "I" THEN Half ELSE RDiv(RInt(1), sp))
        /\ REq(bolt_density, RMul(RInt(bolts_per_row), rows_per_meter))
        /\ REq(total_bolts, RMul(bolt_density, tunnel_length))
        /\ REq(total_bolt_length, RMul(total_bolts, bolt_length))
        /\ (rock_class = "III" /\ REq(w, RInt(5))) =>
              /\ REq(bolt_length, RInt(3))
              /\ REq(bolt_spacing, R(12, 10))
              /\ bolts_per_row = 4
              /\ REq(bolt_density, R(10, 3))

\* a tie: class IV, width 4.5, round(4.5) = 4
C3_Witness ==
    /\ rock_class = "IV"
    /\ REq(excavation_width, R(9, 2))
    /\ bolts_per_row = 4
    /\ REq(tunnel_length, RInt(1000))
    /\ REq(total_bolts, RInt(4000))

(* C4: for rock class I the bolt layout is exactly the 3 positions         *)
(* (width/4, 0.5), (width/2, 0.5), (3*width/4, 0.5), in that order,        *)
(* whatever the height and spacing.                                        *)
C4_ClassISpotLayout ==
    rock_class = "I" =>
        /\ Len(bolt_positions) = 3
        /\ PosEq(bolt_positions[1], RDiv(excavation_width, RInt(4)), Half)
        /\ PosEq(bolt_positions[2], RDiv(excavation_width, RInt(2)), Half)
        /\ PosEq(bolt_positions[3], RDiv(RMul(RInt(3), excavation_width), RInt(4)), Half)

C4_Witness ==
    /\ rock_class = "I"
    /\ REq(excavation_height, R(9, 2))
    /\ REq(excavation_width, RInt(8))
    /\ Len(bolt_positions) = 3
    /\ PosEq(bolt_positions[3], RInt(6), Half)

(* C5: for rock classes II and III, with rows = max(2, floor(height /      *)
(* spacing)) and cols = max(3, floor(width/spacing)), exactly the          *)
(* positions of rows 0 and 1 are emitted (2*cols positions), with y =      *)
(* 0.5*height/rows and 1.5*height/rows from the full row count; no         *)
(* position comes from a row index > 1.                                    *)
C5_CrownRowsOnly ==
    rock_class \in {"II", "III"} =>
        LET sp   == TableSpacing(rock_class)
            rows == IMax(2, FloorOf(RDiv(excavation_height, sp)))
            cols == IMax(3, FloorOf(RDiv(excavation_width, sp)))
            yOf(row) == RDiv(RMul(R(2 * row + 1, 2), excavation_height), RInt(rows))
            xOf(col) == RDiv(RMul(R(2 * col + 1, 2), excavation_width), RInt(cols))
        IN  /\ Len(bolt_positions) = 2 * cols
            /\ \A row \in 0..1 : \A col \in 0..(cols - 1) :
                  PosEq(bolt_positions[row * cols + col + 1], xOf(col), yOf(row))
            /\ \A i \in 1..Len(bolt_positions) : \A row \in 2..(rows - 1) :
                  ~REq(bolt_positions[i][2], yOf(row))

\* a grid of more than two rows, of which two are emitted
C5_Witness ==
    /\ rock_class = "III"
    /\ grid.rows = 3
    /\ grid.cols = 8
    /\ Len(bolt_positions) = 16

(* C6: for rock classes IV and V the layout is the full grid: with rows =  *)
(* floor(height/spacing) and cols = max(3, floor(width/spacing)) it holds  *)
(* exactly rows*cols pairwise distinct positions, one per (row, col), at   *)
(* x = (col+0.5)*width/cols and y = (row+0.5)*height/rows, in row-major    *)
(* order.                                                                  *)
C6_FullGrid ==
    rock_class \in {"IV", "V"} =>
        LET sp   == TableSpacing(rock_class)
            rows == FloorOf(RDiv(excavation_height, sp))
            cols == IMax(3, FloorOf(RDiv(excavation_width, sp)))
            yOf(row) == RDiv(RMul(R(2 * row + 1, 2), excavation_height), RInt(rows))
            xOf(col) == RDiv(RMul(R(2 * col + 1, 2), excavation_width), RInt(cols))
        IN  /\ Len(bolt_positions) = rows * cols
            /\ \A row \in 0..(rows - 1) : \A col \in 0..(cols - 1) :
                  PosEq(bolt_positions[row * cols + col + 1], xOf(col), yOf(row))
            /\ \A i \in 1..Len(bolt_positions) : \A j \in (i + 1)..Len(bolt_positions) :
                  ~SamePos(bolt_positions[i], bolt_positions[j])

\* a single row: no floor of two rows for class IV
C6_Witness ==
    /\ rock_class = "IV"
    /\ REq(excavation_height, R(3, 2))
    /\ REq(excavation_width, RInt(6))
    /\ Len(bolt_positions) = 6

(* C7: every position (x, y) of every layout lies inside the excavation    *)
(* cross-section: 0 <= x <= width and 0 <= y <= height, the fixed y = 0.5  *)
(* of class I included.                                                    *)
C7_PositionsInside ==
    \A i \in 1..Len(bolt_positions) :
        /\ RLe(RInt(0), bolt_positions[i][1])
        /\ RLe(bolt_positions[i][1], excavation_width)
        /\ RLe(RInt(0), bolt_positions[i][2])
        /\ RLe(bolt_positions[i][2], excavation_height)

\* the lowest excavation, with the spot bolts of class I at y = 0.5
C7_Witness ==
    /\ rock_class = "I"
    /\ REq(excavation_height, RInt(1))
    /\ Len(bolt_positions) = 3
    /\ REq(bolt_positions[1][2], Half)

(* C8: no division by zero occurs in the planner or the layout generator:  *)
(* the spacing is non-zero wherever width/spacing, height/spacing or       *)
(* 1/spacing is evaluated, cols >= 3 wherever width/cols is evaluated and  *)
(* rows >= 1 wherever height/rows is evaluated, for classes IV/V (rows has *)
(* no floor there) as well as for II/III.                                  *)
C8_NoDivisionByZero ==
    /\ error = "none"
    /\ bolt_spacing.n > 0
    /\ rock_class # "I" => (grid.cols >= 3 /\ grid.rows >= 1)
    /\ rock_class \in {"II", "III"} => grid.rows >= 2

\* the smallest quotients: width and height 1.0 with the spacing 0.6 of class V
C8_Witness ==
    /\ rock_class = "V"
    /\ REq(excavation_width, RInt(1))
    /\ REq(excavation_height, RInt(1))
    /\ grid = [rows |-> 1, cols |-> 3]
    /\ Len(bolt_positions) = 3

(* C9: an input outside its enumeration (an option that is not in its      *)
(* category's list, a rock class that is not one of I..V passed to the     *)
(* planner or the layout generator) is reported as an error and produces   *)
(* no result: no rating, class, support plan or layout.                    *)
C9_OutOfEnumerationRejected ==
    /\ (ucs_option \notin Range(ucs_options) \/ water_option \notin Range(water_options)) =>
          /\ error # "none"
          /\ Len(ratings) < 5
          /\ rock_class = ""
          /\ bolts_per_row = 0
          /\ bolt_positions = <<>>
    /\ rock_class \notin Classes =>
          /\ error # "none"
          /\ bolts_per_row = 0
          /\ bolt_positions = <<>>

(* C10: support never gets lighter as rock quality gets worse: at the same *)
(* geometry, a selection with a lower RMR score has bolt_length,           *)
(* bolt_density, total_bolts and total_bolt_length >= and spacing <= those *)
(* of one with a higher score, and between two different classes           *)
(* bolt_length and bolt_density are strictly greater and the spacing       *)
(* strictly smaller.  Stated of the run's plan against the plan of every   *)
(* score a valid five-tuple gives.                                         *)
C10_SupportMonotone ==
    \A s \in ScoreValues :
        LET rc    == Classify(s).rock_class
            other == SupportPlan(rc, excavation_width, tunnel_length)
        IN  /\ rmr_value < s =>
                  /\ RLe(other.bolt_length, bolt_length)
                  /\ RLe(other.bolt_density, bolt_density)
                  /\ RLe(other.total_bolts, total_bolts)
                  /\ RLe(other.total_bolt_length, total_bolt_length)
                  /\ RLe(bolt_spacing, other.bolt_spacing)
            /\ (rmr_value < s /\ rc # rock_class) =>
                  /\ RLt(other.bolt_length, bolt_length)
                  /\ RLt(other.bolt_density, bolt_density)
                  /\ RLt(bolt_spacing, other.bolt_spacing)
            /\ (s < rmr_value /\ rc # rock_class) =>
                  /\ RLt(bolt_length, other.bolt_length)
                  /\ RLt(bolt_density, other.bolt_density)
                  /\ RLt(other.bolt_spacing, bolt_spacing)

\* the narrowest excavation, where every bolts_per_row is at its floor
C10_Witness ==
    /\ rock_class = "IV"
    /\ REq(excavation_width, RInt(1))
    /\ REq(bolt_density, RInt(3))
    /\ \E s \in ScoreValues : rmr_value < s /\ Classify(s).rock_class = "III"

====
